---------------------------- MODULE Spec2Model ----------------------------
(***************************************************************************)
(* A model of run.py, the LaTeX build/reporting script.                    *)
(*                                                                         *)
(* Spec     : the process supervisor (compile_main_tex), the progress      *)
(*            ticker (CompilationSpinner), the SIGINT handler              *)
(*            (signal_handler) and the driver (main, convert_to_pdfa).     *)
(*            The main thread advances one source statement at a time;     *)
(*            the handler runs on the main thread between two statements   *)
(*            (CPython runs signal handlers on the main thread), the       *)
(*            ticker thread and the external process run concurrently.     *)
(* SpecFair : Spec under the scheduling assumptions that termination      *)
(*            rests on.                                                    *)
(* SpecLog  : the log analyzer (parse_warnings) run line by line over      *)
(*            logs drawn from a bounded set of token sequences.            *)
(* SpecScan : the pattern extractors (count_equations_detailed and         *)
(*            count_figures_and_tables) run file by file over source trees *)
(*            drawn from a bounded set of token sequences.                 *)
(***************************************************************************)
EXTENDS Integers, Sequences, FiniteSets

(***************************************************************************)
(* Bounds of the model.                                                    *)
(***************************************************************************)
\* how many times SIGINT is delivered in one run
MaxSignals == 2
\* how many lines a log has
MaxLines == 2
\* how many tokens the last line of a log has
MaxLineLen == 4
\* how many .tex files a source tree has
MaxFiles == 3
\* how many tokens a generated .tex file has
MaxFileLen == 4

(***************************************************************************)
(* Program constants.                                                      *)
(***************************************************************************)
\* sys.exit(130) in signal_handler
ExitCancelled == 130
\* sys.exit(0) in main
ExitSuccess == 0
\* sys.exit(1) in main; also the status of an uncaught exception
ExitFailure == 1

VARIABLES
    \* ---- environment -------------------------------------------------
    main_tex_exists,   \* Path("main.tex").exists()
    pdfa,              \* args.pdfa
    pdf_exists,        \* output/main.pdf is on disk after the compile step
                       \* (written by it, or left by an earlier run)
    \* ---- main thread -------------------------------------------------
    pc,                \* next statement of the main thread
    pending,           \* exception in flight while the finally block runs
    hpc,               \* next statement of signal_handler ("idle": not running)
    success,           \* value returned by compile_main_tex ("unset" before)
    have_result,       \* communicate() returned and `result` was built
    result_returncode, \* result.returncode (meaningful when have_result)
    outcome,           \* supervisor outcome: none/Completed/Failed/TimedOut/Cancelled
    convert_sucess,    \* value returned by convert_to_pdfa ("unset" before)
    exit_status,       \* status of the program (meaningful when pc = "done")
    \* ---- globals ------------------------------------------------------
    current_process,   \* TRUE iff the global holds a Popen handle
    spinner,           \* TRUE iff the global holds a CompilationSpinner
    \* ---- CompilationSpinner --------------------------------------------
    spinning,          \* self.spinning
    thread,            \* self.thread: none/created/check/paint/dead
    \* ---- external compile process ---------------------------------------
    proc,              \* none/running/exited
    returncode,        \* its exit code (meaningful when proc = "exited")
    sent,              \* signals sent to it, in order: "TERM"/"KILL"
    \* ---- history (what the claims speak about) ------------------------------
    sigCount,          \* SIGINTs delivered so far
    sigInFlight,       \* a SIGINT was delivered while the process was running
    spawnCount,        \* Popen calls that spawned latexmk
    convCount,         \* subprocess.run calls made for gs
    \* ---- parse_warnings ----------------------------------------------------
    lpc,               \* idle/split/loop/returned
    log_content,       \* the log text: tokens, "\n" between lines
    lines,             \* log_content.split('\n')
    line_num,          \* number of the line the loop is at
    warnings,          \* the list `warnings`
    auxiliary_info,    \* the list `auxiliary_info`
    \* ---- count_equations_detailed, count_figures_and_tables -----------------
    tex_files,         \* the .tex files found: [ok, content] each
    spc,               \* idle/eq_loop/fig_loop/returned
    file_idx,          \* index of the file the running loop is at
    equation_types,    \* the dict `equation_types`
    equation_count,    \* value returned by count_equations_detailed
    counts,            \* the dict `counts`
    figure_counts      \* value returned by count_figures_and_tables
                       \* (meaningful when spc = "returned")

envVars == <<main_tex_exists, pdfa, pdf_exists>>
spinVars == <<spinner, spinning, thread>>
procVars == <<proc, returncode, sent>>
sigVars == <<sigCount, sigInFlight>>
resVars == <<have_result, result_returncode, convert_sucess>>

supVars == <<main_tex_exists, pdfa, pdf_exists, pc, pending, hpc, success,
             have_result, result_returncode, outcome, convert_sucess,
             exit_status, current_process, spinner, spinning, thread, proc,
             returncode, sent, sigCount, sigInFlight, spawnCount, convCount>>

logVars == <<lpc, log_content, lines, line_num, warnings, auxiliary_info>>

scanVars == <<tex_files, spc, file_idx, equation_types, equation_count,
              counts, figure_counts>>

vars == <<supVars, logVars, scanVars>>

\* the elements of a sequence
Range(q) == {q[i] : i \in 1..Len(q)}

(***************************************************************************)
(* Regions of compile_main_tex, by the statement the main thread is at.    *)
(***************************************************************************)
\* the body of the inner try (lines 343-373)
InnerTry == {"c_popen", "c_publish", "c_communicate"}
\* the finally block (lines 375-379)
Finally == {"f_stop_flag", "f_join", "f_clear"}
\* the rest of the outer try (lines 325-341 and 381-397)
OuterTry == {"c_check", "c_mkdir", "c_spinner_new", "s_start_flag",
             "s_start_new", "s_start_run", "c_rc"}
\* the except clauses (lines 399-410)
ExceptClauses == {"x_timeout", "x_exception"}
\* main() after compile_main_tex has returned
MainAfter == {"m_count", "m_report", "m_convert", "m_exit0"}
InCompile == InnerTry \cup Finally \cup OuterTry \cup ExceptClauses

\* compile_main_tex has returned a value to main
Returned == success # "unset"

\* exit codes of the external process: 0, and 1 for any non-zero code
ExitCodes == {0, 1}

(***************************************************************************)
(* Exception propagation.  Dispatch: the except clauses of the outer try   *)
(* (lines 399-410).  SystemExit is no Exception and no KeyboardInterrupt,  *)
(* so it leaves compile_main_tex and main and ends the program.            *)
(***************************************************************************)
Dispatch(exc) ==
    CASE exc = "Timeout" -> "x_timeout"
      [] exc = "Exception" -> "x_exception"
      [] OTHER -> "done"

\* an exception raised at the statement the main thread is at
Raise(exc) ==
    /\ pc' = IF pc \in InnerTry THEN "f_stop_flag"
             ELSE IF pc \in Finally \cup OuterTry THEN Dispatch(exc)
             ELSE "done"
    /\ pending' = IF pc \in InnerTry THEN exc ELSE "none"
    /\ exit_status' = IF pc' = "done"
                      THEN (IF exc = "SystemExit" THEN ExitCancelled
                                                  ELSE ExitFailure)
                      ELSE exit_status

\* the supervisor before main has run, for the given environment
SupInit(tex, flag, pdf) ==
    /\ main_tex_exists = tex
    /\ pdfa = flag
    /\ pdf_exists = pdf
    /\ pc = "m_start"
    /\ pending = "none"
    /\ hpc = "idle"
    /\ success = "unset"
    /\ have_result = FALSE
    /\ result_returncode = 0
    /\ outcome = "none"
    /\ convert_sucess = "unset"
    /\ exit_status = 0
    /\ current_process = FALSE
    /\ spinner = FALSE
    /\ spinning = FALSE
    /\ thread = "none"
    /\ proc = "none"
    /\ returncode = 0
    /\ sent = <<>>
    /\ sigCount = 0
    /\ sigInFlight = FALSE
    /\ spawnCount = 0
    /\ convCount = 0

\* parse_warnings not called
LogIdle ==
    /\ lpc = "idle"
    /\ log_content = <<>>
    /\ lines = <<>>
    /\ line_num = 0
    /\ warnings = <<>>
    /\ auxiliary_info = <<>>

\* the keys of the dict `equation_types`, in the order of the source
equation_types_keys == <<"equation", "equation*", "align", "align*",
                         "gather", "gather*", "multline", "multline*">>
EnvTypes == {equation_types_keys[i] : i \in 1..Len(equation_types_keys)}

\* the keys of the dict `counts`
CountKeys == {"figures_with_subfigures", "figures_without_subfigures",
              "total_subfigures", "tables_with_subtables",
              "tables_without_subtables", "total_subtables",
              "plots_with_subplots", "plots_without_subplots",
              "total_subplots", "tikzpictures_with_plots",
              "tikzpictures_without_plots", "pgfplots_with_subplots",
              "pgfplots_without_subplots", "total_addplots",
              "standalone_graphics"}

\* the dicts as they are created, every count 0
ZeroTypes == [e \in EnvTypes |-> 0]
ZeroCounts == [k \in CountKeys |-> 0]

\* the dict count_figures_and_tables returns, built from `counts`
Summary(c) ==
    LET total_figures == c["figures_with_subfigures"]
                         + c["figures_without_subfigures"]
        total_tables == c["tables_with_subtables"]
                        + c["tables_without_subtables"]
        total_custom_plots == c["plots_with_subplots"]
                              + c["plots_without_subplots"]
        total_tikz_pgf_plots == c["tikzpictures_with_plots"]
                                + c["pgfplots_with_subplots"]
        total_plot_containers == c["tikzpictures_with_plots"]
                                 + c["tikzpictures_without_plots"]
                                 + c["pgfplots_with_subplots"]
                                 + c["pgfplots_without_subplots"]
                                 + total_custom_plots
    IN  [figures |-> total_figures,
         figures_with_subfigures |-> c["figures_with_subfigures"],
         total_subfigures |-> c["total_subfigures"],
         tables |-> total_tables,
         tables_with_subtables |-> c["tables_with_subtables"],
         total_subtables |-> c["total_subtables"],
         custom_plots |-> total_custom_plots,
         plots_with_subplots |-> c["plots_with_subplots"],
         total_subplots |-> c["total_subplots"],
         plot_containers |-> total_plot_containers,
         tikz_pgf_plots |-> total_tikz_pgf_plots,
         total_plot_commands |-> c["total_addplots"],
         graphics |-> c["standalone_graphics"]]

\* the counting functions not called
ScanIdle ==
    /\ tex_files = <<>>
    /\ spc = "idle"
    /\ file_idx = 0
    /\ equation_types = ZeroTypes
    /\ equation_count = 0
    /\ counts = ZeroCounts
    /\ figure_counts = Summary(ZeroCounts)

Init ==
    /\ \E tex \in BOOLEAN, flag \in BOOLEAN, pdf \in BOOLEAN :
         SupInit(tex, flag, pdf)
    /\ LogIdle
    /\ ScanIdle

(***************************************************************************)
(* main and compile_main_tex: the main thread, one statement per action.   *)
(* The main thread runs them only while no handler is running on it.       *)
(***************************************************************************)
\* main, lines 699-715: install the handler, call compile_main_tex
M_Start ==
    /\ pc = "m_start" /\ hpc = "idle"
    /\ pc' = "c_check"
    /\ UNCHANGED <<logVars, scanVars, envVars, resVars, spinVars, procVars, sigVars, pending, hpc,
                   success, outcome, exit_status, current_process, spawnCount,
                   convCount>>

\* C_Check without the existence test of line 328
C_Check_NoTest ==
    /\ pc = "c_check" /\ hpc = "idle"
    /\ pc' = "c_mkdir"
    /\ UNCHANGED <<logVars, scanVars, envVars, resVars, spinVars, procVars, sigVars, pending, hpc,
                   success, outcome, exit_status, current_process, spawnCount,
                   convCount>>

\* lines 327-330: main.tex missing => return False
C_Check ==
    /\ pc = "c_check" /\ hpc = "idle"
    /\ IF main_tex_exists
       THEN pc' = "c_mkdir" /\ UNCHANGED <<success, outcome>>
       ELSE pc' = "m_count" /\ success' = "False" /\ outcome' = "Failed"
    /\ UNCHANGED <<logVars, scanVars, envVars, resVars, spinVars, procVars, sigVars, pending, hpc,
                   exit_status, current_process, spawnCount, convCount>>

\* lines 333-337: output_dir.mkdir(exist_ok=True), which may raise OSError
C_Mkdir ==
    /\ pc = "c_mkdir" /\ hpc = "idle"
    /\ \E ok \in BOOLEAN :
         IF ok THEN pc' = "c_spinner_new" /\ UNCHANGED <<pending, exit_status>>
               ELSE Raise("Exception")
    /\ UNCHANGED <<logVars, scanVars, envVars, resVars, spinVars, procVars, sigVars, hpc, success,
                   outcome, current_process, spawnCount, convCount>>

\* line 340: spinner = CompilationSpinner()      (__init__, lines 38-41)
C_SpinnerNew ==
    /\ pc = "c_spinner_new" /\ hpc = "idle"
    /\ spinner' = TRUE /\ spinning' = FALSE /\ thread' = "none"
    /\ pc' = "s_start_flag"
    /\ UNCHANGED <<logVars, scanVars, envVars, resVars, procVars, sigVars, pending, hpc, success,
                   outcome, exit_status, current_process, spawnCount, convCount>>

\* line 341 -> start(), line 44: self.spinning = True
S_StartFlag ==
    /\ pc = "s_start_flag" /\ hpc = "idle"
    /\ spinning' = TRUE
    /\ pc' = "s_start_new"
    /\ UNCHANGED <<logVars, scanVars, envVars, resVars, procVars, sigVars, pending, hpc, success,
                   outcome, exit_status, current_process, spinner, thread,
                   spawnCount, convCount>>

\* start(), line 45: self.thread = threading.Thread(...)
S_StartNew ==
    /\ pc = "s_start_new" /\ hpc = "idle"
    /\ thread' = "created"
    /\ pc' = "s_start_run"
    /\ UNCHANGED <<logVars, scanVars, envVars, resVars, procVars, sigVars, pending, hpc, success,
                   outcome, exit_status, current_process, spinner, spinning,
                   spawnCount, convCount>>

\* start(), line 46: self.thread.start(); the library calls start() and
\* join() are taken as single steps
S_StartRun ==
    /\ pc = "s_start_run" /\ hpc = "idle"
    /\ thread' = "check"
    /\ pc' = "c_popen"
    /\ UNCHANGED <<logVars, scanVars, envVars, resVars, procVars, sigVars, pending, hpc, success,
                   outcome, exit_status, current_process, spinner, spinning,
                   spawnCount, convCount>>

\* line 345, the call subprocess.Popen([...]): latexmk is spawned, or the
\* call raises (latexmk is not installed)
C_Popen ==
    /\ pc = "c_popen" /\ hpc = "idle"
    /\ \E found \in BOOLEAN :
         IF found
         THEN /\ proc' = "running" /\ spawnCount' = spawnCount + 1
              /\ pc' = "c_publish"
              /\ UNCHANGED <<pending, exit_status>>
         ELSE /\ Raise("Exception")
              /\ UNCHANGED <<proc, spawnCount>>
    /\ UNCHANGED <<logVars, scanVars, envVars, resVars, spinVars, sigVars, hpc, success, outcome,
                   current_process, returncode, sent, convCount>>

\* line 345, the assignment current_process = <the Popen object>
C_Publish ==
    /\ pc = "c_publish" /\ hpc = "idle"
    /\ current_process' = TRUE
    /\ pc' = "c_communicate"
    /\ UNCHANGED <<logVars, scanVars, envVars, resVars, spinVars, procVars, sigVars, pending, hpc,
                   success, outcome, exit_status, spawnCount, convCount>>

\* lines 364-373: communicate() returns once the process has exited
C_Communicate ==
    /\ pc = "c_communicate" /\ hpc = "idle"
    /\ proc = "exited"
    /\ have_result' = TRUE /\ result_returncode' = returncode
    /\ pc' = "f_stop_flag"
    /\ UNCHANGED <<logVars, scanVars, envVars, spinVars, procVars, sigVars, pending, hpc, success,
                   outcome, exit_status, current_process, spawnCount, convCount,
                   convert_sucess>>

\* line 364: communicate(timeout=6000) raises TimeoutExpired while the
\* process is still running
C_CommunicateTimeout ==
    /\ pc = "c_communicate" /\ hpc = "idle"
    /\ proc = "running"
    /\ Raise("Timeout")
    /\ UNCHANGED <<logVars, scanVars, envVars, resVars, spinVars, procVars, sigVars, hpc, success,
                   outcome, current_process, spawnCount, convCount>>

\* finally, lines 377-378 -> stop(), line 49: self.spinning = False
F_StopFlag ==
    /\ pc = "f_stop_flag" /\ hpc = "idle"
    /\ spinning' = FALSE
    /\ pc' = "f_join"
    /\ UNCHANGED <<logVars, scanVars, envVars, resVars, procVars, sigVars, pending, hpc, success,
                   outcome, exit_status, current_process, spinner, thread,
                   spawnCount, convCount>>

\* F_Join without the join: stop() returns while the ticker may still run
F_Join_NoWait ==
    /\ pc = "f_join" /\ hpc = "idle"
    /\ pc' = "f_clear"
    /\ UNCHANGED <<logVars, scanVars, envVars, resVars, spinVars, procVars, sigVars, pending, hpc,
                   success, outcome, exit_status, current_process, spawnCount,
                   convCount>>

\* stop(), lines 50-53: self.thread.join() returns once the ticker has ended
F_Join ==
    /\ pc = "f_join" /\ hpc = "idle"
    /\ thread = "dead"
    /\ pc' = "f_clear"
    /\ UNCHANGED <<logVars, scanVars, envVars, resVars, spinVars, procVars, sigVars, pending, hpc,
                   success, outcome, exit_status, current_process, spawnCount,
                   convCount>>

\* finally, line 379: current_process = None; then the try statement is left
\* normally or with the exception that was in flight
F_Clear ==
    /\ pc = "f_clear" /\ hpc = "idle"
    /\ current_process' = FALSE
    /\ pc' = IF pending = "none" THEN "c_rc" ELSE Dispatch(pending)
    /\ pending' = "none"
    /\ exit_status' = IF pc' = "done" THEN ExitCancelled ELSE exit_status
    /\ UNCHANGED <<logVars, scanVars, envVars, resVars, spinVars, procVars, sigVars, hpc, success,
                   outcome, spawnCount, convCount>>

\* C_Rc with line 391 returning False: a missing PDF downgrades success
C_Rc_PdfRequired ==
    /\ pc = "c_rc" /\ hpc = "idle"
    /\ IF result_returncode = 0 /\ pdf_exists
       THEN success' = "True" /\ outcome' = "Completed"
       ELSE success' = "False" /\ outcome' = "Failed"
    /\ pc' = "m_count"
    /\ UNCHANGED <<logVars, scanVars, envVars, resVars, spinVars, procVars, sigVars, pending, hpc,
                   exit_status, current_process, spawnCount, convCount>>

\* lines 381-397: the verdict on result.returncode; the PDF check at line 386
\* is reported and both of its branches return True
C_Rc ==
    /\ pc = "c_rc" /\ hpc = "idle"
    /\ IF result_returncode = 0
       THEN success' = "True" /\ outcome' = "Completed"
       ELSE success' = "False" /\ outcome' = "Failed"
    /\ pc' = "m_count"
    /\ UNCHANGED <<logVars, scanVars, envVars, resVars, spinVars, procVars, sigVars, pending, hpc,
                   exit_status, current_process, spawnCount, convCount>>

\* lines 399-403: except subprocess.TimeoutExpired
X_Timeout ==
    /\ pc = "x_timeout" /\ hpc = "idle"
    /\ sent' = IF current_process /\ proc = "running"
               THEN Append(sent, "KILL") ELSE sent
    /\ success' = "False" /\ outcome' = "TimedOut"
    /\ pc' = "m_count"
    /\ UNCHANGED <<logVars, scanVars, envVars, resVars, spinVars, sigVars, pending, hpc,
                   exit_status, current_process, proc, returncode, spawnCount,
                   convCount>>

\* lines 408-410: except Exception
X_Exception ==
    /\ pc = "x_exception" /\ hpc = "idle"
    /\ success' = "False" /\ outcome' = "Failed"
    /\ pc' = "m_count"
    /\ UNCHANGED <<logVars, scanVars, envVars, resVars, spinVars, procVars, sigVars, pending, hpc,
                   exit_status, current_process, spawnCount, convCount>>

\* main, lines 716-776: the structure counts and the log analysis; both
\* swallow their own errors and leave `success` alone
M_Count ==
    /\ pc = "m_count" /\ hpc = "idle"
    /\ pc' = "m_report"
    /\ UNCHANGED <<logVars, scanVars, envVars, resVars, spinVars, procVars, sigVars, pending, hpc,
                   success, outcome, exit_status, current_process, spawnCount,
                   convCount>>

\* M_Report without the test of args.pdfa at line 786
M_Report_IgnoresFlag ==
    /\ pc = "m_report" /\ hpc = "idle"
    /\ IF success = "True"
       THEN pc' = "m_convert" /\ UNCHANGED exit_status
       ELSE pc' = "done" /\ exit_status' = ExitFailure
    /\ UNCHANGED <<logVars, scanVars, envVars, resVars, spinVars, procVars, sigVars, pending, hpc,
                   success, outcome, current_process, spawnCount, convCount>>

\* main, lines 778-798
M_Report ==
    /\ pc = "m_report" /\ hpc = "idle"
    /\ IF success = "True"
       THEN IF pdfa
            THEN pc' = "m_convert" /\ UNCHANGED exit_status
            ELSE pc' = "done" /\ exit_status' = ExitSuccess
       ELSE pc' = "done" /\ exit_status' = ExitFailure
    /\ UNCHANGED <<logVars, scanVars, envVars, resVars, spinVars, procVars, sigVars, pending, hpc,
                   success, outcome, current_process, spawnCount, convCount>>

\* outcomes of subprocess.run(gs_cmd, check=True, ...) and of the check of
\* the output file, lines 671-697
GsOutcomes == {"ok", "tool_not_found", "nonzero_exit", "no_output"}

\* main, line 788 -> convert_to_pdfa, lines 618-697
M_Convert ==
    /\ pc = "m_convert" /\ hpc = "idle"
    /\ IF ~pdf_exists
       THEN convert_sucess' = "False" /\ UNCHANGED convCount
       ELSE \E gs \in GsOutcomes :
              /\ convCount' = convCount + 1
              /\ convert_sucess' = IF gs = "ok" THEN "True" ELSE "False"
    /\ pc' = "m_exit0"
    /\ UNCHANGED <<logVars, scanVars, envVars, spinVars, procVars, sigVars, pending, hpc, success,
                   outcome, exit_status, current_process, spawnCount,
                   have_result, result_returncode>>

\* main, lines 790-795: report the conversion, sys.exit(0)
M_Exit0 ==
    /\ pc = "m_exit0" /\ hpc = "idle"
    /\ pc' = "done" /\ exit_status' = ExitSuccess
    /\ UNCHANGED <<logVars, scanVars, envVars, resVars, spinVars, procVars, sigVars, pending, hpc,
                   success, outcome, current_process, spawnCount, convCount>>

(***************************************************************************)
(* signal_handler.  SIGINT is delivered between two statements of the       *)
(* main thread, also while a handler is already running (the new handler    *)
(* then runs to its sys.exit, whose SystemExit unwinds the interrupted      *)
(* handler as well: its except clauses catch Exception only).               *)
(***************************************************************************)
Deliver ==
    /\ pc # "done"
    /\ sigCount < MaxSignals
    /\ sigCount' = sigCount + 1
    /\ sigInFlight' = (sigInFlight \/ proc = "running")
    /\ hpc' = "h_spinner"
    /\ UNCHANGED <<logVars, scanVars, envVars, resVars, spinVars, procVars, pc, pending, success,
                   outcome, exit_status, current_process, spawnCount, convCount>>

\* lines 297-300: if spinner:
H_Spinner ==
    /\ hpc = "h_spinner"
    /\ hpc' = IF spinner THEN "h_stop_flag" ELSE "h_proc"
    /\ UNCHANGED <<logVars, scanVars, envVars, resVars, spinVars, procVars, sigVars, pc, pending,
                   success, outcome, exit_status, current_process, spawnCount,
                   convCount>>

\* line 301 -> stop(), lines 49-50: self.spinning = False; if self.thread:
H_StopFlag ==
    /\ hpc = "h_stop_flag"
    /\ spinning' = FALSE
    /\ hpc' = IF thread = "none" THEN "h_proc" ELSE "h_join"
    /\ UNCHANGED <<logVars, scanVars, envVars, resVars, procVars, sigVars, pc, pending, success,
                   outcome, exit_status, current_process, spinner, thread,
                   spawnCount, convCount>>

\* stop(), lines 51-53: self.thread.join() returns once the ticker has ended
H_Join ==
    /\ hpc = "h_join"
    /\ thread = "dead"
    /\ hpc' = "h_proc"
    /\ UNCHANGED <<logVars, scanVars, envVars, resVars, spinVars, procVars, sigVars, pc, pending,
                   success, outcome, exit_status, current_process, spawnCount,
                   convCount>>

\* stop(), line 51: join() of a Thread that was created (line 45) and not yet
\* started (line 46) raises RuntimeError, which leaves the handler and is
\* raised at the interrupted statement
H_JoinUnstarted ==
    /\ hpc = "h_join"
    /\ thread = "created"
    /\ hpc' = "idle"
    /\ Raise("Exception")
    /\ UNCHANGED <<logVars, scanVars, envVars, resVars, spinVars, procVars, sigVars, success,
                   outcome, current_process, spawnCount, convCount>>

\* line 303: if current_process:
H_Proc ==
    /\ hpc = "h_proc"
    /\ hpc' = IF current_process THEN "h_term" ELSE "h_exit"
    /\ UNCHANGED <<logVars, scanVars, envVars, resVars, spinVars, procVars, sigVars, pc, pending,
                   success, outcome, exit_status, current_process, spawnCount,
                   convCount>>

\* H_Terminate that kills at once: current_process.kill(), then wait()
H_Terminate_Kill ==
    /\ hpc = "h_term"
    /\ sent' = IF proc = "running" THEN Append(sent, "KILL") ELSE sent
    /\ hpc' = "h_wait2"
    /\ UNCHANGED <<logVars, scanVars, envVars, resVars, spinVars, sigVars, pc, pending, success,
                   outcome, exit_status, current_process, proc, returncode,
                   spawnCount, convCount>>

\* lines 304-306: current_process.terminate(); Popen sends nothing to a
\* process that has exited
H_Terminate ==
    /\ hpc = "h_term"
    /\ sent' = IF proc = "running" THEN Append(sent, "TERM") ELSE sent
    /\ hpc' = "h_wait"
    /\ UNCHANGED <<logVars, scanVars, envVars, resVars, spinVars, sigVars, pc, pending, success,
                   outcome, exit_status, current_process, proc, returncode,
                   spawnCount, convCount>>

\* lines 308-309: wait(timeout=5) returns, the process has exited
H_Wait ==
    /\ hpc = "h_wait"
    /\ proc = "exited"
    /\ hpc' = "h_exit"
    /\ UNCHANGED <<logVars, scanVars, envVars, resVars, spinVars, procVars, sigVars, pc, pending,
                   success, outcome, exit_status, current_process, spawnCount,
                   convCount>>

\* lines 308, 310-311: wait(timeout=5) raises TimeoutExpired, the process
\* is still running after the grace period
H_WaitTimeout ==
    /\ hpc = "h_wait"
    /\ proc = "running"
    /\ hpc' = "h_kill"
    /\ UNCHANGED <<logVars, scanVars, envVars, resVars, spinVars, procVars, sigVars, pc, pending,
                   success, outcome, exit_status, current_process, spawnCount,
                   convCount>>

\* line 312: current_process.kill()
H_Kill ==
    /\ hpc = "h_kill"
    /\ sent' = IF proc = "running" THEN Append(sent, "KILL") ELSE sent
    /\ hpc' = "h_wait2"
    /\ UNCHANGED <<logVars, scanVars, envVars, resVars, spinVars, sigVars, pc, pending, success,
                   outcome, exit_status, current_process, proc, returncode,
                   spawnCount, convCount>>

\* lines 313-314: current_process.wait()
H_Wait2 ==
    /\ hpc = "h_wait2"
    /\ proc = "exited"
    /\ hpc' = "h_exit"
    /\ UNCHANGED <<logVars, scanVars, envVars, resVars, spinVars, procVars, sigVars, pc, pending,
                   success, outcome, exit_status, current_process, spawnCount,
                   convCount>>

\* lines 318-319: sys.exit(130) raises SystemExit at the interrupted statement
H_Exit ==
    /\ hpc = "h_exit"
    /\ hpc' = "idle"
    /\ outcome' = IF pc \in InCompile THEN "Cancelled" ELSE outcome
    /\ Raise("SystemExit")
    /\ UNCHANGED <<logVars, scanVars, envVars, resVars, spinVars, procVars, sigVars, success,
                   current_process, spawnCount, convCount>>

(***************************************************************************)
(* CompilationSpinner._spin, the ticker thread.                            *)
(***************************************************************************)
\* line 58: while self.spinning:
T_Check ==
    /\ thread = "check"
    /\ thread' = IF spinning THEN "paint" ELSE "dead"
    /\ UNCHANGED <<logVars, scanVars, envVars, resVars, procVars, sigVars, pc, pending, hpc,
                   success, outcome, exit_status, current_process, spinner,
                   spinning, spawnCount, convCount>>

\* lines 59-66: repaint the progress line, sleep 0.1 s
T_Paint ==
    /\ thread = "paint"
    /\ thread' = "check"
    /\ UNCHANGED <<logVars, scanVars, envVars, resVars, procVars, sigVars, pc, pending, hpc,
                   success, outcome, exit_status, current_process, spinner,
                   spinning, spawnCount, convCount>>

(***************************************************************************)
(* latexmk, the external process: it exits on its own, or because it was    *)
(* sent TERM or KILL, at a time of its choosing.                            *)
(***************************************************************************)
ProcExit ==
    /\ proc = "running"
    /\ proc' = "exited"
    /\ \E code \in ExitCodes : returncode' = code
    /\ UNCHANGED <<logVars, scanVars, envVars, resVars, spinVars, sigVars, pc, pending, hpc,
                   success, outcome, exit_status, current_process, sent,
                   spawnCount, convCount>>

Next ==
    \/ M_Start \/ C_Check \/ C_Mkdir \/ C_SpinnerNew
    \/ S_StartFlag \/ S_StartNew \/ S_StartRun
    \/ C_Popen \/ C_Publish \/ C_Communicate \/ C_CommunicateTimeout
    \/ F_StopFlag \/ F_Join \/ F_Clear
    \/ C_Rc \/ X_Timeout \/ X_Exception
    \/ M_Count \/ M_Report \/ M_Convert \/ M_Exit0
    \/ Deliver
    \/ H_Spinner \/ H_StopFlag \/ H_Join \/ H_JoinUnstarted \/ H_Proc
    \/ H_Terminate \/ H_Wait \/ H_WaitTimeout \/ H_Kill \/ H_Wait2 \/ H_Exit
    \/ T_Check \/ T_Paint
    \/ ProcExit

Spec == Init /\ [][Next]_vars

(***************************************************************************)
(* Scheduling.  The main thread takes its next step when it can (a timed   *)
(* wait returns or times out), and so does a handler running on it; the    *)
(* ticker thread is scheduled; a process that was sent KILL exits.  A      *)
(* process that was not killed need never exit, and SIGINT need never      *)
(* arrive.                                                                 *)
(***************************************************************************)
MainStep ==
    \/ M_Start \/ C_Check \/ C_Mkdir \/ C_SpinnerNew
    \/ S_StartFlag \/ S_StartNew \/ S_StartRun
    \/ C_Popen \/ C_Publish \/ C_Communicate \/ C_CommunicateTimeout
    \/ F_StopFlag \/ F_Join \/ F_Clear
    \/ C_Rc \/ X_Timeout \/ X_Exception
    \/ M_Count \/ M_Report \/ M_Convert \/ M_Exit0

HandlerStep ==
    \/ H_Spinner \/ H_StopFlag \/ H_Join \/ H_JoinUnstarted \/ H_Proc
    \/ H_Terminate \/ H_Wait \/ H_WaitTimeout \/ H_Kill \/ H_Wait2 \/ H_Exit

TickerStep == T_Check \/ T_Paint

KilledProcExit == ProcExit /\ "KILL" \in Range(sent)

SpecFair ==
    /\ Spec
    /\ WF_vars(MainStep)
    /\ WF_vars(HandlerStep)
    /\ WF_vars(TickerStep)
    /\ WF_vars(KilledProcExit)

(***************************************************************************)
(* parse_warnings.  A log line is a sequence of tokens; a token stands for *)
(* a piece of text that the regular expressions of parse_warnings can      *)
(* only match as a whole, so matching is decided token by token.  The      *)
(* flag re.IGNORECASE does not show at this grain.                         *)
(***************************************************************************)
NL == "\n"
BLANK == " "
\* tokens made of word characters only (what \w+ matches)
Words == {"LaTeX", "hyperref", "babel", "inputenc", "fancyhdr", "geometry"}
\* pattern elements that are no literal text
Metas == {".+", ".*", "\\w+"}

\* lines 126-141: warning_patterns, each with the elements of its group 1
\* (the tokens write < and > for the opening and closing quote of a
\* reference, and "> on page 3 undefined" stands for any page number)
warning_patterns == <<
    [re |-> <<"LaTeX", " Warning: ", ".+">>, group |-> <<3, 3>>],
    [re |-> <<"Package ", "\\w+", " Warning: ", ".+">>, group |-> <<4, 4>>],
    [re |-> <<"Warning--", ".+">>, group |-> <<2, 2>>],
    [re |-> <<"LaTeX", " Warning: ", "Reference <", ".+",
              "> on page 3 undefined">>, group |-> <<4, 4>>],
    [re |-> <<"LaTeX", " Warning: ", "Citation <", ".+",
              "> on page 3 undefined">>, group |-> <<4, 4>>],
    [re |-> <<"Package ", "hyperref", " Warning: ", ".+">>, group |-> <<4, 4>>],
    [re |-> <<"Package ", "babel", " Warning: ", ".+">>, group |-> <<4, 4>>],
    [re |-> <<"Package ", "inputenc", " Warning: ", ".+">>, group |-> <<4, 4>>],
    [re |-> <<"Package ", "fancyhdr", " Warning: ", ".+">>, group |-> <<4, 4>>],
    [re |-> <<"Package ", "geometry", " Warning: ", ".+">>, group |-> <<4, 4>>] >>

\* lines 144-149: auxiliary_patterns; the group is the whole pattern
auxiliary_patterns == <<
    [re |-> <<"Overfull \\hbox", ".+">>, group |-> <<1, 2>>],
    [re |-> <<"Underfull \\hbox", ".+">>, group |-> <<1, 2>>],
    [re |-> <<"Overfull \\vbox", ".+">>, group |-> <<1, 2>>],
    [re |-> <<"Underfull \\vbox", ".+">>, group |-> <<1, 2>>] >>

\* lines 152-159: exclude_patterns
exclude_patterns == <<
    <<"LaTeX", " Font", " Info:">>,
    <<"Package ", ".*", " Info:">>,
    <<"File: ", ".*", " Graphic file">>,
    <<"Document Class:">>,
    <<"\\openout1">>,
    <<"For additional information on amsmath">> >>

Max(S) == CHOOSE x \in S : \A y \in S : y <= x

\* how many tokens from position i on are word tokens
RECURSIVE WordRun(_, _)
WordRun(line, i) ==
    IF i <= Len(line) /\ line[i] \in Words THEN 1 + WordRun(line, i + 1) ELSE 0

\* no match
FAIL == <<0>>

\* re: elements k.. of pattern p matched against the line from token i on,
\* greedy with backtracking as in Python's re: the positions just after
\* each element, or FAIL
RECURSIVE MatchFrom(_, _, _, _)
MatchFrom(p, k, line, i) ==
    IF k > Len(p) THEN <<>>
    ELSE IF p[k] \notin Metas
    THEN IF i <= Len(line) /\ line[i] = p[k]
         THEN LET r == MatchFrom(p, k + 1, line, i + 1)
              IN  IF r = FAIL THEN FAIL ELSE <<i + 1>> \o r
         ELSE FAIL
    ELSE LET lo == IF p[k] = ".*" THEN 0 ELSE 1
             hi == IF p[k] = "\\w+" THEN WordRun(line, i)
                                      ELSE Len(line) - i + 1
             ok == {n \in lo..hi : MatchFrom(p, k + 1, line, i + n) # FAIL}
         IN  IF ok = {} THEN FAIL
             ELSE <<i + Max(ok)>> \o MatchFrom(p, k + 1, line, i + Max(ok))

\* re.search(p, line): is there a match starting anywhere in the line
Search(p, line) ==
    \E i \in 1..Len(line) : MatchFrom(p, 1, line, i) # FAIL

\* re.finditer(p, line) from position pos: the non-overlapping matches,
\* leftmost first, each with its start and the ends of its elements
RECURSIVE FindIter(_, _, _)
FindIter(p, line, pos) ==
    IF pos > Len(line) THEN <<>>
    ELSE LET r == MatchFrom(p, 1, line, pos)
         IN  IF r = FAIL THEN FindIter(p, line, pos + 1)
             ELSE <<[start |-> pos, ends |-> r]>>
                  \o FindIter(p, line, r[Len(r)])

\* str.strip(): leading and trailing blanks removed
RECURSIVE Strip(_)
Strip(t) ==
    IF t = <<>> THEN t
    ELSE IF Head(t) = BLANK THEN Strip(Tail(t))
    ELSE IF t[Len(t)] = BLANK THEN Strip(SubSeq(t, 1, Len(t) - 1))
    ELSE t

\* match.group(1) of match m of pattern pat in the line
Group1(pat, m, line) ==
    LET from == IF pat.group[1] = 1 THEN m.start ELSE m.ends[pat.group[1] - 1]
        to == m.ends[pat.group[2]] - 1
    IN  SubSeq(line, from, to)

\* lines 174-183 and 187-195: the records of all matches of all patterns of
\* the list pats, from pattern k on, in the order the loops append them
RECURSIVE Records(_, _, _, _)
Records(pats, k, line, n) ==
    IF k > Len(pats) THEN <<>>
    ELSE LET ms == FindIter(pats[k].re, line, 1)
         IN  [j \in 1..Len(ms) |->
                 [line |-> n,
                  text |-> Strip(Group1(pats[k], ms[j], line)),
                  full_line |-> line]]
             \o Records(pats, k + 1, line, n)

\* lines 167-168: should_exclude
should_exclude(line) ==
    \E k \in 1..Len(exclude_patterns) : Search(exclude_patterns[k], line)

\* ParseLine without the exclusion pass of lines 166-170
ParseLine_NoExclude(raw, n) ==
    LET line == Strip(raw)
        aux == Records(auxiliary_patterns, 1, line, n)
    IN  [aux |-> aux,
         warn |-> IF aux = <<>> THEN Records(warning_patterns, 1, line, n)
                  ELSE <<>>]

\* ParseLine without the test of is_auxiliary at line 186
ParseLine_NoAuxGate(raw, n) ==
    LET line == Strip(raw)
    IN  IF should_exclude(line) THEN [aux |-> <<>>, warn |-> <<>>]
        ELSE [aux |-> Records(auxiliary_patterns, 1, line, n),
              warn |-> Records(warning_patterns, 1, line, n)]

\* lines 164-195: one iteration of the loop over the lines: the records the
\* line raw with number n adds to auxiliary_info and to warnings
ParseLine(raw, n) ==
    LET line == Strip(raw)
        aux == Records(auxiliary_patterns, 1, line, n)
        is_auxiliary == aux # <<>>
    IN  IF should_exclude(line) THEN [aux |-> <<>>, warn |-> <<>>]
        ELSE [aux |-> aux,
              warn |-> IF ~is_auxiliary
                       THEN Records(warning_patterns, 1, line, n)
                       ELSE <<>>]

\* str.split('\n'): the pieces between the newlines; one piece, the empty
\* one, for the empty text
RECURSIVE Split(_)
Split(t) ==
    IF \A i \in 1..Len(t) : t[i] # NL THEN <<t>>
    ELSE LET i == CHOOSE j \in 1..Len(t) :
                      t[j] = NL /\ \A h \in 1..(j - 1) : t[h] # NL
         IN  <<SubSeq(t, 1, i - 1)>> \o Split(SubSeq(t, i + 1, Len(t)))

(***************************************************************************)
(* The logs parse_warnings is run on.                                      *)
(***************************************************************************)
\* the text of the box notice of the scenario
BoxText == " (5.2pt too wide) in paragraph at lines 10--12"

\* the tokens the last line of a log is made of
LogTokens == {"LaTeX", " Warning: ", "Package ", " Info:", "Overfull \\hbox",
              BoxText}

\* the two lines of the scenario of section 8 of the specification
RefLine == <<"LaTeX", " Warning: ", "Reference <", "fig:1",
             "> on page 3 undefined">>
BoxLine == <<"Overfull \\hbox", BoxText>>
\* a font-info line, indented, that quotes a bibliography warning
FontLine == <<BLANK, "LaTeX", " Font", " Info:", BLANK, "Warning--", "fig:1">>
\* the lines a log may hold before its last line
SampleLines == {RefLine, FontLine}

\* the token sequences of length 0..n
RECURSIVE TokenSeqs(_)
TokenSeqs(n) ==
    IF n = 0 THEN {<<>>}
    ELSE LET shorter == TokenSeqs(n - 1)
         IN  shorter \cup {Append(q, t) : q \in shorter, t \in LogTokens}

\* the sequences of at most n sample lines
RECURSIVE SampleSeqs(_)
SampleSeqs(n) ==
    IF n = 0 THEN {<<>>}
    ELSE LET shorter == SampleSeqs(n - 1)
         IN  shorter \cup {Append(q, l) : q \in shorter, l \in SampleLines}

\* a log: sample lines, then one line that is any token sequence of at most
\* MaxLineLen tokens
Logs == {Append(q, l) : q \in SampleSeqs(MaxLines - 1),
                        l \in TokenSeqs(MaxLineLen)}

\* the text of a log: its lines with a newline between them
RECURSIVE Join(_)
Join(ls) ==
    IF Len(ls) = 1 THEN ls[1]
    ELSE ls[1] \o <<NL>> \o Join(Tail(ls))

\* the supervisor when only parse_warnings is looked at
SupIdle == SupInit(TRUE, FALSE, FALSE)

InitLog ==
    /\ SupIdle
    /\ ScanIdle
    /\ lpc = "split"
    /\ log_content \in {Join(ls) : ls \in Logs}
    /\ lines = <<>>
    /\ line_num = 0
    /\ warnings = <<>>
    /\ auxiliary_info = <<>>

\* line 161: lines = log_content.split('\n')
P_Split ==
    /\ lpc = "split"
    /\ lines' = Split(log_content)
    /\ line_num' = 1
    /\ lpc' = "loop"
    /\ UNCHANGED <<supVars, scanVars, log_content, warnings, auxiliary_info>>

\* lines 163-195: one iteration of  for line_num, line in enumerate(lines, 1)
P_Line ==
    /\ lpc = "loop"
    /\ line_num <= Len(lines)
    /\ LET r == ParseLine(lines[line_num], line_num)
       IN  /\ auxiliary_info' = auxiliary_info \o r.aux
           /\ warnings' = warnings \o r.warn
    /\ line_num' = line_num + 1
    /\ UNCHANGED <<supVars, scanVars, lpc, log_content, lines>>

\* line 197: return warnings, auxiliary_info
P_Return ==
    /\ lpc = "loop"
    /\ line_num > Len(lines)
    /\ lpc' = "returned"
    /\ UNCHANGED <<supVars, scanVars, log_content, lines, line_num, warnings,
                   auxiliary_info>>

NextLog == P_Split \/ P_Line \/ P_Return

SpecLog == InitLog /\ [][NextLog]_vars

(***************************************************************************)
(* count_equations_detailed and count_figures_and_tables.  The content of  *)
(* a .tex file is a sequence of tokens; a token stands for a piece of text *)
(* that the regular expressions of the two functions can only match as a   *)
(* whole: a \begin{env} or \end{env} marker, a command, or other text.     *)
(***************************************************************************)
\* the text \begin{env}
B(env) == [cmd |-> "begin", arg |-> env]
\* the text \end{env}
E(env) == [cmd |-> "end", arg |-> env]
\* the text \name
Cmd(name) == [cmd |-> name, arg |-> ""]
\* the text t, which holds no backslash
Txt(t) == [cmd |-> "", arg |-> t]

\* the number of elements of the finite set S of positions
CountOf(S) == Cardinality(S)

\* a negative lookahead (?!ch) at the end of token i: the text that follows
\* does not start with the character ch
NotFollowedBy(content, i, ch) ==
    i = Len(content) \/ content[i + 1] # Txt(ch)

\* line 95, '*' in env_type: the keys that hold an asterisk
StarredTypes == {"equation*", "align*", "gather*", "multline*"}

\* lines 94-103: len(re.findall(pattern, content)).  For a starred key the
\* pattern is \\begin{env\*}; for a plain key it is \\begin{env}(?!\*),
\* whose lookahead tests the character after the closing brace.
EquationMatches(env_type, content) ==
    IF env_type \in StarredTypes
    THEN CountOf({i \in 1..Len(content) : content[i] = B(env_type)})
    ELSE CountOf({i \in 1..Len(content) :
                    /\ content[i] = B(env_type)
                    /\ NotFollowedBy(content, i, "*")})

\* lines 94-103: the loop over the keys, for one file
CountEquations(types, content) ==
    [e \in EnvTypes |-> types[e] + EquationMatches(e, content)]

\* line 108: sum(equation_types.values())
RECURSIVE SumTypes(_, _)
SumTypes(types, i) ==
    IF i > Len(equation_types_keys) THEN 0
    ELSE types[equation_types_keys[i]] + SumTypes(types, i + 1)

\* the seven container scans of count_figures_and_tables, in source order:
\* the environment, the markers counted inside a block (sub_not_s: those
\* guarded by the lookahead (?!s)), and the three tallies
container_patterns == <<
    [env |-> "figure", sub |-> {B("subfigure")}, sub_not_s |-> {},
     with |-> "figures_with_subfigures",
     without |-> "figures_without_subfigures", total |-> "total_subfigures"],
    [env |-> "figure*", sub |-> {B("subfigure")}, sub_not_s |-> {},
     with |-> "figures_with_subfigures",
     without |-> "figures_without_subfigures", total |-> "total_subfigures"],
    [env |-> "table", sub |-> {B("subtable")}, sub_not_s |-> {},
     with |-> "tables_with_subtables",
     without |-> "tables_without_subtables", total |-> "total_subtables"],
    [env |-> "table*", sub |-> {B("subtable")}, sub_not_s |-> {},
     with |-> "tables_with_subtables",
     without |-> "tables_without_subtables", total |-> "total_subtables"],
    [env |-> "plot", sub |-> {B("subplot")}, sub_not_s |-> {},
     with |-> "plots_with_subplots",
     without |-> "plots_without_subplots", total |-> "total_subplots"],
    [env |-> "tikzpicture", sub |-> {Cmd("addplot")},
     sub_not_s |-> {Cmd("plot")},
     with |-> "tikzpictures_with_plots",
     without |-> "tikzpictures_without_plots", total |-> "total_addplots"],
    [env |-> "axis", sub |-> {Cmd("addplot")}, sub_not_s |-> {},
     with |-> "pgfplots_with_subplots",
     without |-> "pgfplots_without_subplots", total |-> "total_addplots"] >>

\* the smallest element of a non-empty set of integers
Min(S) == CHOOSE x \in S : \A y \in S : x <= y

\* \\begin\{env\}(.*)\\end\{env\}, a greedy pattern: one block from the first
\* \begin{env} to the last \end{env}
FindBlocks_Greedy(env, content, pos) ==
    LET starts == {i \in pos..Len(content) :
                      /\ content[i] = B(env)
                      /\ \E j \in (i + 1)..Len(content) : content[j] = E(env)}
    IN  IF starts = {} THEN <<>>
        ELSE LET i == Min(starts)
                 j == Max({j \in (i + 1)..Len(content) : content[j] = E(env)})
             IN  <<SubSeq(content, i + 1, j - 1)>>

\* re.findall(r'\\begin\{env\}(.*?)\\end\{env\}', content, re.DOTALL) from
\* position pos on: the leftmost \begin{env} that has an \end{env} after it
\* opens a block, the first such \end{env} closes it, and the search goes on
\* behind it.  The list holds the text between the two markers.
RECURSIVE FindBlocks(_, _, _)
FindBlocks(env, content, pos) ==
    LET starts == {i \in pos..Len(content) :
                      /\ content[i] = B(env)
                      /\ \E j \in (i + 1)..Len(content) : content[j] = E(env)}
    IN  IF starts = {} THEN <<>>
        ELSE LET i == Min(starts)
                 j == Min({j \in (i + 1)..Len(content) : content[j] = E(env)})
             IN  <<SubSeq(content, i + 1, j - 1)>>
                 \o FindBlocks(env, content, j + 1)

\* len(re.findall(...)) on the text of one block (lines 447, 505, 516, ...)
SubCount(k, block) ==
    CountOf({i \in 1..Len(block) :
               \/ block[i] \in k.sub
               \/ block[i] \in k.sub_not_s /\ NotFollowedBy(block, i, "s")})

\* the body of a block loop that adds a block with sub-elements to both
\* tallies
TallyBlock_Both(c, k, block) ==
    LET n == SubCount(k, block)
    IN  IF n > 0
        THEN [c EXCEPT ![k.with] = @ + 1, ![k.total] = @ + n,
                       ![k.without] = @ + 1]
        ELSE [c EXCEPT ![k.without] = @ + 1]

\* the body of a block loop (lines 447-452 and its six copies)
TallyBlock(c, k, block) ==
    LET n == SubCount(k, block)
    IN  IF n > 0
        THEN [c EXCEPT ![k.with] = @ + 1, ![k.total] = @ + n]
        ELSE [c EXCEPT ![k.without] = @ + 1]

\* a block loop: for block in matches
RECURSIVE TallyBlocks(_, _, _)
TallyBlocks(c, k, blocks) ==
    IF blocks = <<>> THEN c
    ELSE TallyBlocks(TallyBlock(c, k, Head(blocks)), k, Tail(blocks))

\* the container scans from the i-th on, for one file
RECURSIVE ScanContainers(_, _, _)
ScanContainers(c, content, i) ==
    IF i > Len(container_patterns) THEN c
    ELSE LET k == container_patterns[i]
         IN  ScanContainers(TallyBlocks(c, k, FindBlocks(k.env, content, 1)),
                            content, i + 1)

\* lines 442-525: what one readable file adds to `counts`; the token
\* \includegraphics stands for a whole \includegraphics[..]{..}
ScanFile(c, content) ==
    LET c1 == ScanContainers(c, content, 1)
    IN  [c1 EXCEPT !["standalone_graphics"] =
             @ + CountOf({i \in 1..Len(content) :
                            content[i] = Cmd("includegraphics")})]

(***************************************************************************)
(* The source trees the two functions are run on.                          *)
(***************************************************************************)
\* a file whose open() or read() raises (no permission, a directory named
\* x.tex, ...)
Unreadable == [ok |-> FALSE, content |-> <<>>]
\* a file that reads as the given content
File(content) == [ok |-> TRUE, content |-> content]

\* the tokens generated files are made of: equation markers ...
EqTokens == {B("equation"), B("equation*"), B("align"), Txt("*")}
\* ... or figure markers
FigTokens == {B("figure"), E("figure"), B("subfigure"), E("subfigure")}

\* a figure that holds two subfigures
FigSample == <<B("figure"), B("subfigure"), E("subfigure"),
               B("subfigure"), E("subfigure"), E("figure")>>
\* a plain figure
PlainFigSample == <<B("figure"), Cmd("includegraphics"), E("figure")>>
\* a starred figure with a subfigure, then a plain one
StarFigSample == <<B("figure*"), B("subfigure"), E("figure*"),
                   B("figure"), E("figure")>>
\* tables: one with a subtable, one starred without
TableSample == <<B("table"), B("subtable"), E("table"),
                 B("table*"), E("table*")>>
\* custom plot blocks: one with two subplots, one without
PlotSample == <<B("plot"), B("subplot"), B("subplot"), E("plot"),
                B("plot"), E("plot")>>
\* the usual pgfplots layout: an axis inside a tikzpicture
TikzAxisSample == <<B("tikzpicture"), B("axis"), Cmd("addplot"),
                    E("axis"), E("tikzpicture")>>
\* a tikzpicture with \plot and \plots, an axis of its own, an empty picture
TikzPlotSample == <<B("tikzpicture"), Cmd("plot"), Cmd("plot"), Txt("s"),
                    E("tikzpicture"), B("axis"), Cmd("addplot"), E("axis"),
                    B("tikzpicture"), E("tikzpicture")>>
SampleContents == {FigSample, PlainFigSample, StarFigSample, TableSample,
                   PlotSample, TikzAxisSample, TikzPlotSample}

\* the sequences of at most n tokens of T
RECURSIVE ContentSeqs(_, _)
ContentSeqs(T, n) ==
    IF n = 0 THEN {<<>>}
    ELSE LET shorter == ContentSeqs(T, n - 1)
         IN  shorter \cup {Append(q, t) : q \in shorter, t \in T}

\* the files a tree may hold before its last file
PrefixFiles == {Unreadable, File(FigSample)}
RECURSIVE PrefixSeqs(_)
PrefixSeqs(n) ==
    IF n = 0 THEN {<<>>}
    ELSE LET shorter == PrefixSeqs(n - 1)
         IN  shorter \cup {Append(q, f) : q \in shorter, f \in PrefixFiles}

\* the last file of a tree
LastFiles ==
    {Unreadable}
    \cup {File(c) : c \in ContentSeqs(EqTokens, MaxFileLen)
                          \cup ContentSeqs(FigTokens, MaxFileLen)
                          \cup SampleContents}

\* a source tree: at most MaxFiles files
FileLists == {Append(q, f) : q \in PrefixSeqs(MaxFiles - 1), f \in LastFiles}

InitScan ==
    /\ SupIdle
    /\ LogIdle
    /\ tex_files \in FileLists
    /\ spc = "eq_start"
    /\ file_idx = 0
    /\ equation_types = ZeroTypes
    /\ equation_count = 0
    /\ counts = ZeroCounts
    /\ figure_counts = Summary(ZeroCounts)

\* lines 72-88: count_equations_detailed is called (main, line 723)
CountEq_Start ==
    /\ spc = "eq_start"
    /\ equation_types' = ZeroTypes
    /\ file_idx' = 1
    /\ spc' = "eq_loop"
    /\ UNCHANGED <<supVars, logVars, tex_files, equation_count, counts,
                   figure_counts>>

\* lines 88-106: one iteration of  for tex_file in tex_files; a file that
\* cannot be read raises at line 90 or 91, before anything was counted
CountEq_File ==
    /\ spc = "eq_loop"
    /\ file_idx <= Len(tex_files)
    /\ equation_types' =
         IF tex_files[file_idx].ok
         THEN CountEquations(equation_types, tex_files[file_idx].content)
         ELSE equation_types
    /\ file_idx' = file_idx + 1
    /\ UNCHANGED <<supVars, logVars, tex_files, spc, equation_count, counts,
                   figure_counts>>

\* lines 108-116: return total
CountEq_Return ==
    /\ spc = "eq_loop"
    /\ file_idx > Len(tex_files)
    /\ equation_count' = SumTypes(equation_types, 1)
    /\ spc' = "fig_start"
    /\ UNCHANGED <<supVars, logVars, tex_files, file_idx, equation_types,
                   counts, figure_counts>>

\* lines 414-437: count_figures_and_tables is called (main, line 724)
CountFig_Start ==
    /\ spc = "fig_start"
    /\ counts' = ZeroCounts
    /\ file_idx' = 1
    /\ spc' = "fig_loop"
    /\ UNCHANGED <<supVars, logVars, tex_files, equation_types,
                   equation_count, figure_counts>>

\* CountFig_File with a failing file ending the scan with every count 0
CountFig_File_Abort ==
    /\ spc = "fig_loop"
    /\ file_idx <= Len(tex_files)
    /\ IF tex_files[file_idx].ok
       THEN /\ counts' = ScanFile(counts, tex_files[file_idx].content)
            /\ file_idx' = file_idx + 1
       ELSE /\ counts' = ZeroCounts
            /\ file_idx' = Len(tex_files) + 1
    /\ UNCHANGED <<supVars, logVars, tex_files, spc, equation_types,
                   equation_count, figure_counts>>

\* lines 437-528: one iteration of  for tex_file in tex_files; a file that
\* cannot be read raises at line 439 or 440, before anything was counted
CountFig_File ==
    /\ spc = "fig_loop"
    /\ file_idx <= Len(tex_files)
    /\ counts' = IF tex_files[file_idx].ok
                 THEN ScanFile(counts, tex_files[file_idx].content)
                 ELSE counts
    /\ file_idx' = file_idx + 1
    /\ UNCHANGED <<supVars, logVars, tex_files, spc, equation_types,
                   equation_count, figure_counts>>

\* lines 530-598: the totals and the returned dict
CountFig_Return ==
    /\ spc = "fig_loop"
    /\ file_idx > Len(tex_files)
    /\ figure_counts' = Summary(counts)
    /\ spc' = "returned"
    /\ UNCHANGED <<supVars, logVars, tex_files, file_idx, equation_types,
                   equation_count, counts>>

NextScan ==
    \/ CountEq_Start \/ CountEq_File \/ CountEq_Return
    \/ CountFig_Start \/ CountFig_File \/ CountFig_Return

SpecScan == InitScan /\ [][NextScan]_vars

(***************************************************************************)
(* Properties of the process supervisor, checked under Spec.               *)
(***************************************************************************)

\* C1: when the wait on latexmk times out, the process has been killed (or
\* has exited) by the time compile_main_tex reports TimedOut, the ticker is
\* stopped, compile_main_tex returns False, and a run without interrupt
\* ends with exit status 1.
C1_TimeoutKillsProcess ==
    outcome = "TimedOut" =>
        /\ proc = "exited" \/ "KILL" \in Range(sent)
        /\ ~spinning /\ thread = "dead"
        /\ success = "False"
        /\ (pc = "done" /\ sigCount = 0) => exit_status = ExitFailure

\* the parts of C1 other than the kill
C1_TimeoutReported ==
    outcome = "TimedOut" =>
        /\ ~spinning /\ thread = "dead"
        /\ success = "False"
        /\ (pc = "done" /\ sigCount = 0) => exit_status = ExitFailure

\* C2: when SIGINT was delivered while latexmk was running, the program
\* ends with exit status 130 and the process was sent TERM (unless it had
\* exited by itself before terminate() was reached).
C2_InterruptTearsDown ==
    (pc = "done" /\ sigInFlight) =>
        /\ exit_status = ExitCancelled
        /\ proc = "exited" \/ "TERM" \in Range(sent)

\* C3: outside the inner try statement of compile_main_tex the handle is
\* none, whichever way the statement was left, and a handler that runs
\* after compile_main_tex has returned reaches neither terminate() nor
\* kill().
C3_HandleCleared ==
    /\ pc \notin (InnerTry \cup Finally) => ~current_process
    /\ Returned => hpc \notin {"h_term", "h_wait", "h_kill", "h_wait2"}

\* the part of C3 about the states after compile_main_tex has returned
C3_ClearedAfterReturn ==
    Returned =>
        /\ ~current_process
        /\ hpc \notin {"h_term", "h_wait", "h_kill", "h_wait2"}

C5_MissingInput ==
    ~main_tex_exists =>
        /\ spawnCount = 0 /\ proc = "none"
        /\ ~spinner /\ ~spinning /\ thread = "none"
        /\ ~current_process
        /\ Returned => (success = "False" /\ outcome = "Failed")

C5_Witness ==
    ~main_tex_exists /\ Returned /\ pc = "m_count"

\* C6: when compile_main_tex has returned, and when the program has exited
\* through the handler's sys.exit(130), the stop flag is cleared and no
\* started ticker thread is still running.
C6_TickerQuiesced ==
    (Returned \/ (pc = "done" /\ exit_status = ExitCancelled)) =>
        /\ ~spinning
        /\ thread \notin {"check", "paint"}

\* an exit through the handler with a ticker that had been started
C6_Witness ==
    pc = "done" /\ exit_status = ExitCancelled /\ thread = "dead"

\* C7: latexmk is spawned at most once and gs is run at most once; gs is run
\* only with --pdfa and only after compile_main_tex has returned True.
C7_AtMostOnce ==
    /\ spawnCount <= 1
    /\ convCount <= 1
    /\ convCount > 0 => (pdfa /\ success = "True")

C7_Witness ==
    spawnCount = 1 /\ convCount = 1

(***************************************************************************)
(* Properties of parse_warnings, checked under SpecLog.                    *)
\* C15: escalation order of signal_handler.  The wait of the grace period
\* is entered only from the terminate call; the kill step is entered only
\* from that wait, when it expired with the process still running; the only
\* signals sent are TERM by the terminate call and KILL by the kill step,
\* the latter never before a TERM was sent; and a handler that holds a
\* process handle gets to sys.exit(130) only when the process has exited.
C15_EscalationOrder ==
    [][ /\ (hpc' = "h_wait" /\ hpc # "h_wait") => hpc = "h_term"
        /\ (hpc' = "h_kill" /\ hpc # "h_kill") =>
              (hpc = "h_wait" /\ proc = "running")
        /\ sent' # sent =>
              \/ hpc = "h_term" /\ sent' = Append(sent, "TERM")
              \/ /\ hpc = "h_kill" /\ sent' = Append(sent, "KILL")
                 /\ "TERM" \in Range(sent)
        /\ (hpc' = "h_exit" /\ current_process') => proc' = "exited"
      ]_vars

\* the full escalation ran: TERM, the grace period expired, KILL, exit 130
C15_Witness ==
    /\ pc = "done" /\ exit_status = ExitCancelled
    /\ sent = <<"TERM", "KILL">>
    /\ proc = "exited"

\* the process exited within the grace period: TERM only, exit 130
C15_WitnessGraceful ==
    /\ pc = "done" /\ exit_status = ExitCancelled
    /\ sent = <<"TERM">>
    /\ proc = "exited"

\* the terminal outcomes of the supervisor
TerminalOutcomes == {"Completed", "Failed", "TimedOut", "Cancelled"}

\* latexmk has been spawned and compile_main_tex waits for it
Running == pc \in {"c_publish", "c_communicate"}

\* C16: every call of compile_main_tex eventually gets out of the function
\* (it never blocks forever) and ends in exactly one terminal outcome; the
\* outcome, once set, never changes; and the outcomes exclude each other
\* in what the caller sees: Completed returns True, Failed and TimedOut
\* return False, Cancelled returns nothing.
C16_TerminatesInOneOutcome ==
    /\ [](pc \in InCompile =>
            <>(pc \notin InCompile /\ outcome \in TerminalOutcomes))
    /\ [][outcome # "none" => outcome' = outcome]_vars
    /\ [](/\ outcome = "Completed" => success = "True"
          /\ outcome \in {"Failed", "TimedOut"} => success = "False"
          /\ outcome = "Cancelled" => success = "unset")

\* what holds of every call: it gets out of compile_main_tex, and an
\* outcome that was set stays
C16_NeverBlocks ==
    /\ [](pc \in InCompile => <>(pc \notin InCompile))
    /\ [][outcome # "none" => outcome' = outcome]_vars

\* what holds of the calls that have spawned latexmk: they end in a
\* terminal outcome
C16_RunningEndsInOutcome ==
    [](Running => <>(pc \notin InCompile /\ outcome \in TerminalOutcomes))

\* the call that ends in no outcome: interrupted in start() and again in
\* the except clause, it is left by the RuntimeError of join()
C16_EndedWithoutOutcome ==
    /\ pc = "done" /\ exit_status = ExitFailure
    /\ outcome = "none" /\ thread = "created" /\ sigCount = 2

(***************************************************************************)
\* the numbers of the lines that the records of the list recs carry
LineNumbers(recs) == {recs[i].line : i \in 1..Len(recs)}

\* a box pattern, a warning pattern matches the stripped line
MatchesBox(line) ==
    \E k \in 1..Len(auxiliary_patterns) :
        Search(auxiliary_patterns[k].re, Strip(line))
MatchesWarning(line) ==
    \E k \in 1..Len(warning_patterns) :
        Search(warning_patterns[k].re, Strip(line))
MatchesExclusion(line) ==
    \E k \in 1..Len(exclude_patterns) :
        Search(exclude_patterns[k], Strip(line))

\* C8: for the log of the two scenario lines parse_warnings returns exactly
\* one Warning record and exactly one AuxiliaryLayoutNotice record.
C8_ScenarioCounts ==
    (lpc = "returned" /\ lines = <<RefLine, BoxLine>>) =>
        (Len(warnings) = 1 /\ Len(auxiliary_info) = 1)

\* what the code returns for the scenario: two Warning records, one notice
C8_ScenarioAsCoded ==
    (lpc = "returned" /\ lines = <<RefLine, BoxLine>>) =>
        (Len(warnings) = 2 /\ Len(auxiliary_info) = 1)

\* C9: no Warning record carries the number of a line that has an
\* AuxiliaryLayoutNotice record; a line that was scanned, is not excluded
\* and matches a box pattern has such a record and no Warning record.
C9_BoxLineNeverWarning ==
    /\ LineNumbers(warnings) \cap LineNumbers(auxiliary_info) = {}
    /\ \A n \in 1..Len(lines) :
         (n < line_num /\ MatchesBox(lines[n]) /\ ~MatchesExclusion(lines[n]))
            => (n \in LineNumbers(auxiliary_info)
                /\ n \notin LineNumbers(warnings))

\* a returned parse with a notice for a line that matches a warning pattern
C9_Witness ==
    /\ lpc = "returned"
    /\ \E i \in 1..Len(auxiliary_info) :
         MatchesWarning(auxiliary_info[i].full_line)

\* C10: no record of either list carries the number of a line that matches
\* an exclusion pattern.
C10_ExcludedLineNoRecord ==
    \A n \in 1..Len(lines) :
        MatchesExclusion(lines[n]) =>
            n \notin (LineNumbers(warnings) \cup LineNumbers(auxiliary_info))

\* a returned parse of a log with an excluded line that matches a warning
\* pattern and an excluded line that matches a box pattern
C10_Witness ==
    /\ lpc = "returned"
    /\ \E n \in 1..Len(lines) :
         MatchesExclusion(lines[n]) /\ MatchesWarning(lines[n])
    /\ \E n \in 1..Len(lines) :
         MatchesExclusion(lines[n]) /\ MatchesBox(lines[n])

(***************************************************************************)
(* Properties of the pattern extractors, checked under SpecScan.           *)
(***************************************************************************)
\* the label families of count_equations_detailed and their starred keys
Families == {"equation", "align", "gather", "multline"}
StarOf == [equation |-> "equation*", align |-> "align*",
           gather |-> "gather*", multline |-> "multline*"]

\* the begin-markers of family L in a content, \begin{L} and \begin{L*}
Markers(L, content) ==
    CountOf({i \in 1..Len(content) : content[i] \in {B(L), B(StarOf[L])}})

\* the begin-markers of family L in the readable ones of the first n files
RECURSIVE MarkersIn(_, _)
MarkersIn(L, n) ==
    IF n = 0 THEN 0
    ELSE MarkersIn(L, n - 1)
         + (IF tex_files[n].ok THEN Markers(L, tex_files[n].content) ELSE 0)

\* the loop of count_equations_detailed is over
EquationsCounted == spc \in {"fig_start", "fig_loop", "returned"}

\* C11: for each label family L, every begin-marker of the family, whatever
\* follows it, is counted in exactly one of the counts for L and L*: the two
\* counts together equal the number of begin-markers of the family.
C11_EveryMarkerCounted ==
    EquationsCounted =>
        \A L \in Families :
            equation_types[L] + equation_types[StarOf[L]]
                = MarkersIn(L, Len(tex_files))

\* what the code does count: the two counts never exceed the markers (no
\* marker is counted twice); a \begin{L} that an asterisk follows directly
\* is in neither count
C11_NeverCountedTwice ==
    EquationsCounted =>
        \A L \in Families :
            equation_types[L] + equation_types[StarOf[L]]
                <= MarkersIn(L, Len(tex_files))


\* the sum of a sequence of numbers
RECURSIVE SeqSum(_)
SeqSum(q) == IF q = <<>> THEN 0 ELSE Head(q) + SeqSum(Tail(q))

\* the container kinds the report speaks of: the environments of the kind,
\* the begin-marker of its sub-element, its tallies in `counts` and the
\* key of its total in the returned dict
ReportKinds == {
    [envs |-> {"figure", "figure*"}, sub |-> B("subfigure"),
     with |-> "figures_with_subfigures",
     without |-> "figures_without_subfigures",
     total |-> "total_subfigures", reported |-> "figures"],
    [envs |-> {"table", "table*"}, sub |-> B("subtable"),
     with |-> "tables_with_subtables",
     without |-> "tables_without_subtables",
     total |-> "total_subtables", reported |-> "tables"],
    [envs |-> {"plot"}, sub |-> B("subplot"),
     with |-> "plots_with_subplots",
     without |-> "plots_without_subplots",
     total |-> "total_subplots", reported |-> "custom_plots"] }

\* the positions of the begin- and end-markers of kind K in a content
Begins(K, content) ==
    {i \in 1..Len(content) : \E e \in K.envs : content[i] = B(e)}
Ends(K, content) ==
    {i \in 1..Len(content) : \E e \in K.envs : content[i] = E(e)}
\* the markers of kind K behind position i, and before it
After(K, content, i) ==
    {j \in Begins(K, content) \cup Ends(K, content) : j > i}
Before(K, content, i) ==
    {j \in Begins(K, content) \cup Ends(K, content) : j < i}

\* the content is a sequence of non-nested sibling containers of kind K:
\* the next marker after a \begin{e} is its \end{e}, and the marker
\* before an \end{e} is its \begin{e}
Siblings(K, content) ==
    /\ \A i \in Begins(K, content) :
          /\ After(K, content, i) # {}
          /\ content[Min(After(K, content, i))] = E(content[i].arg)
    /\ \A j \in Ends(K, content) :
          /\ Before(K, content, j) # {}
          /\ content[Max(Before(K, content, j))] = B(content[j].arg)

\* the sub-element begin-markers of K between the container that opens at
\* position i and its end
SubsOf(K, content, i) ==
    {p \in 1..Len(content) :
        /\ content[p] = K.sub
        /\ i < p /\ p < Min(After(K, content, i))}

\* per file (0 for an unreadable one): the containers of kind K, those
\* that hold a sub-element, and the sub-elements inside a container
ContainersPerFile(K) ==
    [n \in 1..Len(tex_files) |->
        IF tex_files[n].ok
        THEN Cardinality(Begins(K, tex_files[n].content)) ELSE 0]
NestingPerFile(K) ==
    [n \in 1..Len(tex_files) |->
        IF tex_files[n].ok
        THEN Cardinality({i \in Begins(K, tex_files[n].content) :
                            SubsOf(K, tex_files[n].content, i) # {}})
        ELSE 0]
SubsPerFile(K) ==
    [n \in 1..Len(tex_files) |->
        IF tex_files[n].ok
        THEN Cardinality(UNION {SubsOf(K, tex_files[n].content, i) :
                                  i \in Begins(K, tex_files[n].content)})
        ELSE 0]

\* every readable file is a sequence of sibling containers of kind K
AllSiblings(K) ==
    \A n \in 1..Len(tex_files) :
        tex_files[n].ok => Siblings(K, tex_files[n].content)

\* the two files of the scenario: a figure holding two subfigures, and a
\* plain figure
ScenarioTree == <<File(FigSample), File(<<B("figure"), E("figure")>>)>>

\* C12: when every file is a sequence of non-nested sibling containers of a
\* kind (figure, table or plot), each container is matched as its own
\* block (the blocks number the containers), the nested total is the
\* number of sub-element begin-markers that lie inside a container
\* (markers outside add nothing), and the tallies add up across files; a
\* file with a figure holding two subfigures plus a file with a plain
\* figure give figures_with_subfigures = 1, total_subfigures = 2,
\* figures_without_subfigures = 1 and 2 figures.
C12_SiblingsAndNesting ==
    spc = "returned" =>
        /\ \A K \in ReportKinds :
              AllSiblings(K) =>
                  /\ counts[K.with] + counts[K.without]
                        = SeqSum(ContainersPerFile(K))
                  /\ counts[K.with] = SeqSum(NestingPerFile(K))
                  /\ counts[K.total] = SeqSum(SubsPerFile(K))
        /\ tex_files = ScenarioTree =>
              /\ figure_counts.figures_with_subfigures = 1
              /\ figure_counts.total_subfigures = 2
              /\ counts["figures_without_subfigures"] = 1
              /\ figure_counts.figures = 2

\* the scenario of C12 has been scanned
C12_Witness ==
    /\ spc = "returned"
    /\ tex_files = ScenarioTree
    /\ figure_counts.total_subfigures = 2

\* other reached cases of C12: a sub-element outside any container, and
\* two sibling figures of which the second holds the sub-element
C12_WitnessOutside ==
    /\ spc = "returned"
    /\ tex_files = <<File(<<B("subfigure"), B("figure"), B("subfigure"),
                            E("figure")>>)>>
    /\ counts["total_subfigures"] = 1
C12_WitnessTables ==
    /\ spc = "returned"
    /\ tex_files = <<File(TableSample)>>
    /\ figure_counts.tables = 2 /\ figure_counts.total_subtables = 1


\* the blocks the patterns of kind K match in the readable ones of the
\* first n files
RECURSIVE BlocksMatched(_, _)
BlocksMatched(K, n) ==
    IF n = 0 THEN 0
    ELSE BlocksMatched(K, n - 1)
         + (IF tex_files[n].ok
            THEN SeqSum([i \in 1..Len(container_patterns) |->
                     IF container_patterns[i].env \in K.envs
                     THEN Len(FindBlocks(container_patterns[i].env,
                                         tex_files[n].content, 1))
                     ELSE 0])
            ELSE 0)

\* C13: for every source tree and every container kind (figure, table,
\* plot), every matched block has incremented exactly one of the with- and
\* without-tallies, once: the two tallies together number the blocks
\* matched so far, and their sum is the total that is reported under
\* 'figures', 'tables' and 'custom_plots'.
C13_TalliesPartitionBlocks ==
    \A K \in ReportKinds :
        /\ spc = "fig_loop" =>
              counts[K.with] + counts[K.without]
                  = BlocksMatched(K, file_idx - 1)
        /\ spc = "returned" =>
              /\ counts[K.with] + counts[K.without]
                    = BlocksMatched(K, Len(tex_files))
              /\ figure_counts[K.reported]
                    = counts[K.with] + counts[K.without]

\* a tree with a block of each tally has been scanned and reported
C13_Witness ==
    /\ spc = "returned"
    /\ tex_files = <<File(FigSample), File(PlotSample)>>
    /\ counts["plots_with_subplots"] = 1
    /\ counts["plots_without_subplots"] = 1
    /\ figure_counts.custom_plots = 2
    /\ figure_counts.figures = 1


\* the readable files of a list, in order
IsReadable(f) == f.ok
Readable(files) == SelectSeq(files, IsReadable)

\* the two scans run over a list of files that can all be read
RECURSIVE ScanAll(_, _)
ScanAll(c, files) ==
    IF files = <<>> THEN c
    ELSE ScanAll(ScanFile(c, Head(files).content), Tail(files))
RECURSIVE CountAll(_, _)
CountAll(types, files) ==
    IF files = <<>> THEN types
    ELSE CountAll(CountEquations(types, Head(files).content), Tail(files))

\* the files a loop that is at file_idx has been through
Scanned == SubSeq(tex_files, 1, file_idx - 1)

\* C14: a file that cannot be read is skipped and adds nothing, and the
\* scan goes on: at every point of either loop the counts are those of the
\* readable files among the files gone through (nothing accumulated is
\* lost), and each function returns what a scan of the readable files
\* alone returns.
C14_FailingFilesSkipped ==
    /\ spc = "eq_loop" =>
          equation_types = CountAll(ZeroTypes, Readable(Scanned))
    /\ EquationsCounted =>
          equation_count
              = SumTypes(CountAll(ZeroTypes, Readable(tex_files)), 1)
    /\ spc = "fig_loop" =>
          counts = ScanAll(ZeroCounts, Readable(Scanned))
    /\ spc = "returned" =>
          figure_counts = Summary(ScanAll(ZeroCounts, Readable(tex_files)))

\* a tree with an unreadable file between two readable ones has been
\* scanned, and both readable files are in the result
C14_Witness ==
    /\ spc = "returned"
    /\ tex_files = <<File(FigSample), Unreadable, File(FigSample)>>
    /\ figure_counts.figures = 2
    /\ figure_counts.total_subfigures = 4

\* the same for the equation count, the unreadable file coming first
C14_WitnessEquations ==
    /\ spc = "returned"
    /\ tex_files = <<Unreadable, File(<<B("equation"), B("align")>>)>>
    /\ equation_count = 2


\* the plot commands in the readable files: \addplot, and \plot that is
\* not the start of \plots
PlotCommands(content) ==
    CountOf({i \in 1..Len(content) :
               \/ content[i] = Cmd("addplot")
               \/ content[i] = Cmd("plot") /\ NotFollowedBy(content, i, "s")})
PlotCommandsPerFile ==
    [n \in 1..Len(tex_files) |->
        IF tex_files[n].ok THEN PlotCommands(tex_files[n].content) ELSE 0]

\* C17: every plot command adds to total_plot_commands at most once, also
\* when its axis block lies inside a tikzpicture block: the reported
\* total never exceeds the number of plot commands in the files.
C17_PlotCommandsCountedOnce ==
    spc = "returned" =>
        figure_counts.total_plot_commands <= SeqSum(PlotCommandsPerFile)

\* what the code reports for one \addplot in an axis inside a tikzpicture
C17_AxisInTikzCountedTwice ==
    (spc = "returned" /\ tex_files = <<File(TikzAxisSample)>>) =>
        figure_counts.total_plot_commands = 2

\* a tree where the blocks do not overlap: every command is counted once
C17_SeparateBlocksCountedOnce ==
    (spc = "returned" /\ tex_files = <<File(TikzPlotSample)>>) =>
        figure_counts.total_plot_commands = 2


=============================================================================
